---- MODULE Spec2Model ----
(***************************************************************************)
(* Model of src/dashboard.py: a Streamlit script that, when the "Analyze   *)
(* Stock" button is pressed, (1) fetches fundamentals through Rug and      *)
(* shows three metrics, (2) downloads OHLCV bars through yfinance,         *)
(* resamples them for the '4h' interval, computes SMA / rolling std /      *)
(* Bollinger bands / RSI with pandas and plots a three-row chart.          *)
(*                                                                         *)
(* Numbers.  pandas works on float64.  The model keeps the three kinds of  *)
(* float64 value that decide the control flow and the claims apart: a      *)
(* finite value (an exact fraction n/d, d > 0), an infinity and NaN.       *)
(* Rounding error and the sign of zero are not modelled.                   *)
(* Indices.  TLA+ sequences start at 1: position i+1 of a sequence is the  *)
(* element pandas calls [i].                                               *)
(***************************************************************************)
EXTENDS Integers, Sequences, FiniteSets, TLC

VARIABLES
    pc,           \* position of the script run
    interval,     \* sidebar selectbox "Candle Interval"          (line 15)
    window,       \* sidebar number_input "Window"                (line 19)
    std_dev,      \* sidebar number_input "Std Dev"               (line 20)
    basic_info,   \* result of rug_stock.get_basic_info()         (line 29)
    price_change, \* result of rug_stock.get_current_price_change() (line 30)
    metrics,      \* st.metric widgets shown by this run, in order
    messages,     \* st.error / st.warning boxes shown by this run, in order
    yf_calls,     \* the yf.download calls of this run: interval asked, answer
    df,           \* the data frame's bars (rows of Open/High/Low/Close/Volume)
    SMA, STD, Upper, Lower, RSI, \* derived columns of df           (lines 92-103)
    delta, gain, loss, \* the price changes and their rolling averages (lines 99-101)
    colors,       \* marker colours of the volume trace            (line 141)
    charts        \* number of st.plotly_chart calls of this run   (line 157)

vars == <<pc, interval, window, std_dev, basic_info, price_change, metrics,
          messages, yf_calls, df, SMA, STD, Upper, Lower, RSI, delta, gain, loss,
          colors, charts>>

-----------------------------------------------------------------------------
(* float64 values: finite fraction, infinity, NaN *)

Fin(n, d) == [k |-> "fin", n |-> n, d |-> d]
Inf(s)    == [k |-> "inf", n |-> s, d |-> 1]
NaN       == [k |-> "nan", n |-> 0, d |-> 1]

Sign(x) == IF x > 0 THEN 1 ELSE IF x < 0 THEN -1 ELSE 0

IsNaN(a) == a.k = "nan"

\* a > b and a < b on float64: every comparison with NaN is False
FGt(a, b) ==
    CASE a.k = "nan" \/ b.k = "nan" -> FALSE
      [] a.k = "inf" /\ b.k = "inf" -> a.n > b.n
      [] a.k = "inf" -> a.n > 0
      [] b.k = "inf" -> b.n < 0
      [] OTHER -> a.n * b.d > b.n * a.d

FLt(a, b) == FGt(b, a)

\* a == b on float64 (NaN equals nothing)
FEq(a, b) ==
    CASE a.k = "nan" \/ b.k = "nan" -> FALSE
      [] a.k = "inf" \/ b.k = "inf" -> a.k = b.k /\ a.n = b.n
      [] OTHER -> a.n * b.d = b.n * a.d

FNeg(a) == IF a.k = "nan" THEN NaN ELSE [a EXCEPT !.n = -a.n]

FAdd(a, b) ==
    CASE a.k = "nan" \/ b.k = "nan" -> NaN
      [] a.k = "inf" /\ b.k = "inf" -> IF a.n = b.n THEN a ELSE NaN
      [] a.k = "inf" -> a
      [] b.k = "inf" -> b
      [] OTHER -> Fin(a.n * b.d + b.n * a.d, a.d * b.d)

FSub(a, b) == FAdd(a, FNeg(b))

\* numpy float division: x/0 is +-inf, 0/0 is NaN, nothing is raised
FDiv(a, b) ==
    CASE a.k = "nan" \/ b.k = "nan" -> NaN
      [] a.k = "inf" /\ b.k = "inf" -> NaN
      [] a.k = "inf" -> Inf(a.n * (IF b.n < 0 THEN -1 ELSE 1))
      [] b.k = "inf" -> Fin(0, 1)
      [] b.n = 0 -> IF a.n = 0 THEN NaN ELSE Inf(Sign(a.n))
      [] OTHER -> Fin(a.n * b.d * Sign(b.n), a.d * b.n * Sign(b.n))

-----------------------------------------------------------------------------
(* pandas Series operations used by the indicator code *)

\* a Series holds its values: it is built once, not recomputed on each access
Materialized(s) == SubSeq(s, 1, Len(s))

Column(frame, col) == Materialized([i \in 1..Len(frame) |-> Fin(frame[i][col], 1)])

\* Series.diff(): element minus its predecessor, NaN at the first position
Diff(s) == Materialized([i \in 1..Len(s) |-> IF i = 1 THEN NaN ELSE FSub(s[i], s[i-1])])

\* delta.where(delta > 0, 0): keep where the condition is True, else 0
WherePositive(s) ==
    Materialized([i \in 1..Len(s) |-> IF FGt(s[i], Fin(0, 1)) THEN s[i] ELSE Fin(0, 1)])

\* delta.where(delta < 0, 0)
WhereNegative(s) ==
    Materialized([i \in 1..Len(s) |-> IF FLt(s[i], Fin(0, 1)) THEN s[i] ELSE Fin(0, 1)])

NegSeries(s) == Materialized([i \in 1..Len(s) |-> FNeg(s[i])])

FMul(a, b) ==
    CASE a.k = "nan" \/ b.k = "nan" -> NaN
      [] a.k = "inf" \/ b.k = "inf" ->
            IF Sign(a.n) * Sign(b.n) = 0 THEN NaN ELSE Inf(Sign(a.n) * Sign(b.n))
      [] OTHER -> Fin(a.n * b.n, a.d * b.d)

-----------------------------------------------------------------------------
(* pandas fixed-window rolling aggregation (Series.rolling(window, min_periods)) *)

RSIWindow == 14

\* Rolling.__init__ validation: window must be an integer >= 0 and
\* min_periods must not exceed it, otherwise ValueError
RollingValid(w, minp) == w >= 0 /\ minp <= w

\* rolling(window=14): min_periods defaults to the window
DefaultMinPeriods(w) == w

\* faulty variant: a window one observation too long
WindowStartLate(p, w) == IF p - w > 1 THEN p - w ELSE 1

\* first position of the window that ends at position p (positions from 1)
WindowStart(p, w) == IF p - w + 1 > 1 THEN p - w + 1 ELSE 1

\* add_mean / remove_mean: NaN observations are skipped (val == val)
AddMean(acc, v) ==
    IF IsNaN(v) THEN acc ELSE [nobs |-> acc.nobs + 1, sum |-> FAdd(acc.sum, v)]

RemoveMean(acc, v) ==
    IF IsNaN(v) THEN acc ELSE [nobs |-> acc.nobs - 1, sum |-> FSub(acc.sum, v)]

\* the sliding update of roll_mean from the window ending at p-1 to the one
\* ending at p: drop the observation that left the window, add the new one
SlideMean(acc, vals, w, p) ==
    LET kept == IF p > 1 /\ WindowStart(p, w) > WindowStart(p - 1, w)
                THEN RemoveMean(acc, vals[WindowStart(p - 1, w)])
                ELSE acc
    IN  AddMean(kept, vals[p])

\* calc_mean: sum / nobs once min_periods observations are in the window
CalcMean(acc, minp) ==
    IF acc.nobs >= minp /\ acc.nobs > 0
    THEN FDiv(acc.sum, Fin(acc.nobs, 1))
    ELSE NaN

RECURSIVE RollMeanFrom(_, _, _, _, _)
RollMeanFrom(vals, w, minp, p, acc) ==
    IF p > Len(vals) THEN <<>>
    ELSE LET a == SlideMean(acc, vals, w, p)
         IN  <<CalcMean(a, minp)>> \o RollMeanFrom(vals, w, minp, p + 1, a)

\* Rolling.mean()
RollingMean(vals, w, minp) ==
    RollMeanFrom(vals, w, minp, 1, [nobs |-> 0, sum |-> Fin(0, 1)])

\* add_var / remove_var keep the count, the mean and the sum of squared
\* deviations; the model keeps the equivalent count, sum and sum of squares
AddVar(acc, v) ==
    IF IsNaN(v) THEN acc
    ELSE [nobs |-> acc.nobs + 1, sum |-> FAdd(acc.sum, v),
          sumsq |-> FAdd(acc.sumsq, FMul(v, v))]

RemoveVar(acc, v) ==
    IF IsNaN(v) THEN acc
    ELSE [nobs |-> acc.nobs - 1, sum |-> FSub(acc.sum, v),
          sumsq |-> FSub(acc.sumsq, FMul(v, v))]

SlideVar(acc, vals, w, p) ==
    LET kept == IF p > 1 /\ WindowStart(p, w) > WindowStart(p - 1, w)
                THEN RemoveVar(acc, vals[WindowStart(p - 1, w)])
                ELSE acc
    IN  AddVar(kept, vals[p])

\* faulty variant: population variance (ddof = 0), defined from one observation on
CalcVarPopulation(acc, minp) ==
    IF acc.nobs >= minp /\ acc.nobs > 0
    THEN FDiv(FSub(FMul(Fin(acc.nobs, 1), acc.sumsq), FMul(acc.sum, acc.sum)),
              Fin(acc.nobs * acc.nobs, 1))
    ELSE NaN

\* calc_var with ddof = 1: needs nobs >= min_periods and nobs > ddof;
\* (nobs * sumsq - sum^2) / (nobs * (nobs - 1)) is the sample variance
CalcVar(acc, minp) ==
    IF acc.nobs >= minp /\ acc.nobs > 1
    THEN FDiv(FSub(FMul(Fin(acc.nobs, 1), acc.sumsq), FMul(acc.sum, acc.sum)),
              Fin(acc.nobs * (acc.nobs - 1), 1))
    ELSE NaN

\* Rolling.std() is the square root of the rolling variance; a defined
\* value is kept as the radicand: [k |-> "sqrt", n, d] stands for sqrt(n/d)
CalcStd(acc, minp) ==
    LET v == CalcVar(acc, minp)
    IN  IF IsNaN(v) THEN NaN ELSE [k |-> "sqrt", n |-> v.n, d |-> v.d]

RECURSIVE RollStdFrom(_, _, _, _, _)
RollStdFrom(vals, w, minp, p, acc) ==
    IF p > Len(vals) THEN <<>>
    ELSE LET a == SlideVar(acc, vals, w, p)
         IN  <<CalcStd(a, minp)>> \o RollStdFrom(vals, w, minp, p + 1, a)

RollingStd(vals, w, minp) ==
    RollStdFrom(vals, w, minp, 1, [nobs |-> 0, sum |-> Fin(0, 1), sumsq |-> Fin(0, 1)])

\* df['SMA'] +/- df['STD'] * std_dev: base + coef * sqrt(n/d), NaN if STD is
Band(sma, std, coef) ==
    Materialized([p \in 1..Len(sma) |->
        IF IsNaN(sma[p]) \/ IsNaN(std[p]) THEN NaN
        ELSE [k |-> "band", base |-> sma[p], coef |-> coef,
              n |-> std[p].n, d |-> std[p].d]])

\* lines 99-101
RSIDelta(close) == Diff(close)
RSIGain(d) ==
    RollingMean(WherePositive(d), RSIWindow, DefaultMinPeriods(RSIWindow))
RSILoss(d) ==
    RollingMean(NegSeries(WhereNegative(d)), RSIWindow, DefaultMinPeriods(RSIWindow))

\* faulty variant: the ratio taken the wrong way round, rs = loss / gain
RSIValueSwapped(g, l) ==
    LET rs == FDiv(l, g)
    IN  FSub(Fin(100, 1), FDiv(Fin(100, 1), FAdd(Fin(1, 1), rs)))

\* lines 102-103: rs = gain / loss; 100 - (100 / (1 + rs))
RSIValue(g, l) ==
    LET rs == FDiv(g, l)
    IN  FSub(Fin(100, 1), FDiv(Fin(100, 1), FAdd(Fin(1, 1), rs)))

RSISeries(g, l) == Materialized([p \in 1..Len(g) |-> RSIValue(g[p], l[p])])

\* line 141: 'green' if row['Open'] - row['Close'] >= 0 else 'red'
VolumeColor(row) == IF row.Open - row.Close >= 0 THEN "green" ELSE "red"

-----------------------------------------------------------------------------
(* lines 77-86: df.resample('4h').agg({...}).dropna() *)

BucketHours == 4

\* the 4-hour bin a timestamp (in hours) falls into; bins are anchored at
\* midnight and labelled by their left edge
Bucket(t) == t \div BucketHours

Contributing(frame, b) == SelectSeq(frame, LAMBDA row : Bucket(row.t) = b)

RECURSIVE SumCol(_, _)
SumCol(rows, col) ==
    IF rows = <<>> THEN 0 ELSE rows[1][col] + SumCol(Tail(rows), col)

MaxCol(rows, col) ==
    CHOOSE m \in {rows[i][col] : i \in 1..Len(rows)} :
        \A i \in 1..Len(rows) : rows[i][col] <= m

MinCol(rows, col) ==
    CHOOSE m \in {rows[i][col] : i \in 1..Len(rows)} :
        \A i \in 1..Len(rows) : rows[i][col] >= m

\* faulty variant: 'High' aggregated with 'first' instead of 'max'
AggRowFirstHigh(frame, b) ==
    LET rows == Contributing(frame, b)
        none == rows = <<>>
    IN  [t      |-> b * BucketHours,
         Open   |-> IF none THEN <<>> ELSE <<rows[1].Open>>,
         High   |-> IF none THEN <<>> ELSE <<rows[1].High>>,
         Low    |-> IF none THEN <<>> ELSE <<MinCol(rows, "Low")>>,
         Close  |-> IF none THEN <<>> ELSE <<rows[Len(rows)].Close>>,
         Volume |-> <<SumCol(rows, "Volume")>>]

\* one aggregated row; a price aggregate of an empty bin is NaN (written <<>>,
\* a defined value v is written <<v>>), the volume sum of an empty bin is 0
AggRow(frame, b) ==
    LET rows == Contributing(frame, b)
        none == rows = <<>>
    IN  [t      |-> b * BucketHours,
         Open   |-> IF none THEN <<>> ELSE <<rows[1].Open>>,
         High   |-> IF none THEN <<>> ELSE <<MaxCol(rows, "High")>>,
         Low    |-> IF none THEN <<>> ELSE <<MinCol(rows, "Low")>>,
         Close  |-> IF none THEN <<>> ELSE <<rows[Len(rows)].Close>>,
         Volume |-> <<SumCol(rows, "Volume")>>]

\* resample produces one row per bin from the first bar's bin to the last's
Aggregated(frame) ==
    LET first == Bucket(frame[1].t)
        last  == Bucket(frame[Len(frame)].t)
    IN  [j \in 1..(last - first + 1) |-> AggRow(frame, first + j - 1)]

\* DataFrame.dropna(): drop every row that holds a NaN
HasNaN(row) ==
    \E col \in {"Open", "High", "Low", "Close", "Volume"} : row[col] = <<>>

DropNa(rows) == SelectSeq(rows, LAMBDA row : ~HasNaN(row))

Resample4h(frame) ==
    LET kept == DropNa(Aggregated(frame))
    IN  [j \in 1..Len(kept) |->
            [t |-> kept[j].t, Open |-> kept[j].Open[1], High |-> kept[j].High[1],
             Low |-> kept[j].Low[1], Close |-> kept[j].Close[1],
             Volume |-> kept[j].Volume[1]]]

\* lines 64-69: the interval yf.download is asked for
YfInterval(iv) == IF iv = "4h" THEN "1h" ELSE iv

\* lines 77-86
Resampled(iv, frame) == IF iv = "4h" /\ frame # <<>> THEN Resample4h(frame) ELSE frame

-----------------------------------------------------------------------------
(* inputs: the sidebar widgets and what the two providers may answer *)

Symbol == "AAPL"                                   \* line 13, the default text
Intervals == {"1h", "4h", "1d", "1wk", "1mo"}      \* line 15
DefaultInterval == "1d"                            \* line 15, index=2
DefaultWindow == 20                                \* line 19
DefaultStdDev == 2                                 \* line 20

\* st.number_input is given no min_value: any number can be entered
WindowChoices == {-1, 0, 1, DefaultWindow}
StdDevChoices == {-1, 0, DefaultStdDev}

\* what a Rug call may hand back: a dict (a set of <<key, value>> items) or a
\* value without .get (None)
Dict(items) == [kind |-> "dict", items |-> items]
NoneValue == [kind |-> "none", items |-> {}]
Unset == [kind |-> "unset", items |-> {}]

BasicInfoResults ==
    {Dict({<<"name", "Apple Inc.">>, <<"price", "150.0">>}), Dict({}), NoneValue}
PriceChangeResults ==
    {Dict({<<"change", "1.5">>, <<"changePercent", "1.0">>}), Dict({}), NoneValue}

HasGet(obj) == obj.kind = "dict"

\* dict.get(key, default)
Get(obj, key, default) ==
    IF \E kv \in obj.items : kv[1] = key
    THEN (CHOOSE kv \in obj.items : kv[1] = key)[2]
    ELSE default

\* bars the market-data provider may return: OHLCV shapes at increasing hours
MaxBars == 2
MaxHour == 1
HistMaxBars == 3
HistMaxHour == 8

Shapes ==
    {[Open |-> 1, High |-> 3, Low |-> 1, Close |-> 2, Volume |-> 1],
     [Open |-> 3, High |-> 4, Low |-> 2, Close |-> 2, Volume |-> 2],
     [Open |-> 2, High |-> 2, Low |-> 2, Close |-> 2, Volume |-> 0]}

MkBar(t, shape) ==
    [t |-> t, Open |-> shape.Open, High |-> shape.High, Low |-> shape.Low,
     Close |-> shape.Close, Volume |-> shape.Volume]

RECURSIVE Ascending(_)
Ascending(T) ==
    IF T = {} THEN <<>>
    ELSE LET m == CHOOSE x \in T : \A y \in T : x <= y
         IN  <<m>> \o Ascending(T \ {m})

BarSeqs(maxBars, maxHour) ==
    UNION {{[i \in 1..Cardinality(T) |-> MkBar(Ascending(T)[i], sh[i])] :
                sh \in [1..Cardinality(T) -> Shapes]} :
           T \in {U \in SUBSET (0..maxHour) : Cardinality(U) <= maxBars}}

Answer(raises, bars) == [raises |-> raises, bars |-> bars]
Call(iv, answer) == [interval |-> iv, raises |-> answer.raises, bars |-> answer.bars]
Feed == {Answer(TRUE, <<>>)} \cup {Answer(FALSE, b) : b \in BarSeqs(MaxBars, MaxHour)}
HistFeed ==
    {Answer(TRUE, <<>>)} \cup {Answer(FALSE, b) : b \in BarSeqs(HistMaxBars, HistMaxHour)}

-----------------------------------------------------------------------------
(* the script *)

widgets == <<interval, window, std_dev>>
fundOut == <<basic_info, price_change, metrics>>
columns == <<SMA, STD, Upper, Lower, RSI, delta, gain, loss, colors, charts>>

\* a rerun of the script starts from an empty page
Cleared ==
    /\ basic_info' = Unset /\ price_change' = Unset
    /\ metrics' = <<>> /\ messages' = <<>>
    /\ yf_calls' = <<>> /\ df' = <<>>
    /\ SMA' = <<>> /\ STD' = <<>> /\ Upper' = <<>> /\ Lower' = <<>> /\ RSI' = <<>>
    /\ delta' = <<>> /\ gain' = <<>> /\ loss' = <<>>
    /\ colors' = <<>> /\ charts' = 0

Init ==
    /\ pc = "idle"
    /\ interval = DefaultInterval /\ window = DefaultWindow /\ std_dev = DefaultStdDev
    /\ basic_info = Unset /\ price_change = Unset
    /\ metrics = <<>> /\ messages = <<>>
    /\ yf_calls = <<>> /\ df = <<>>
    /\ SMA = <<>> /\ STD = <<>> /\ Upper = <<>> /\ Lower = <<>> /\ RSI = <<>>
    /\ delta = <<>> /\ gain = <<>> /\ loss = <<>>
    /\ colors = <<>> /\ charts = 0

\* lines 13-22 with the button not pressed: one widget is changed, the
\* script reruns, the button returns False and nothing below line 22 runs
SetInterval(iv) ==
    /\ pc \in {"idle", "done"}
    /\ interval' = iv
    /\ pc' = "idle"
    /\ Cleared
    /\ UNCHANGED <<window, std_dev>>

SetWindow(w) ==
    /\ pc \in {"idle", "done"}
    /\ window' = w
    /\ pc' = "idle"
    /\ Cleared
    /\ UNCHANGED <<interval, std_dev>>

SetStdDev(k) ==
    /\ pc \in {"idle", "done"}
    /\ std_dev' = k
    /\ pc' = "idle"
    /\ Cleared
    /\ UNCHANGED <<interval, window>>

\* line 22: the button is pressed
ClickAnalyze ==
    /\ pc \in {"idle", "done"}
    /\ pc' = "rug"
    /\ Cleared
    /\ UNCHANGED widgets

\* line 26: Rug(symbol) returns a client or raises
RugCreate(raises) ==
    /\ pc = "rug"
    /\ pc' = IF raises THEN "fund_except" ELSE "basic_info"
    /\ UNCHANGED <<widgets, fundOut, messages, yf_calls, df, columns>>

\* line 29
GetBasicInfo(raises, result) ==
    /\ pc = "basic_info"
    /\ pc' = IF raises THEN "fund_except" ELSE "price_change"
    /\ basic_info' = IF raises THEN basic_info ELSE result
    /\ UNCHANGED <<widgets, price_change, metrics, messages, yf_calls, df, columns>>

\* line 30
GetPriceChange(raises, result) ==
    /\ pc = "price_change"
    /\ pc' = IF raises THEN "fund_except" ELSE "metric1"
    /\ price_change' = IF raises THEN price_change ELSE result
    /\ UNCHANGED <<widgets, basic_info, metrics, messages, yf_calls, df, columns>>

Metric(label, value, deltaText) ==
    [label |-> label, value |-> value, delta |-> deltaText]

\* lines 35-36: basic_info.get raises AttributeError on a value without .get
ShowCompanyName ==
    /\ pc = "metric1"
    /\ IF HasGet(basic_info)
       THEN /\ metrics' = Append(metrics,
                   Metric("Company Name", <<Get(basic_info, "name", Symbol)>>, <<>>))
            /\ pc' = "metric2"
       ELSE /\ metrics' = metrics
            /\ pc' = "fund_except"
    /\ UNCHANGED <<widgets, basic_info, price_change, messages, yf_calls, df, columns>>

\* lines 37-38: f"${basic_info.get('price', 'N/A')}"
ShowCurrentPrice ==
    /\ pc = "metric2"
    /\ IF HasGet(basic_info)
       THEN /\ metrics' = Append(metrics,
                   Metric("Current Price", <<"$", Get(basic_info, "price", "N/A")>>, <<>>))
            /\ pc' = "metric3"
       ELSE /\ metrics' = metrics
            /\ pc' = "fund_except"
    /\ UNCHANGED <<widgets, basic_info, price_change, messages, yf_calls, df, columns>>

\* lines 39-43: price_change.get raises AttributeError on a value without .get;
\* a missing key formats as "None"
ShowChange ==
    /\ pc = "metric3"
    /\ IF HasGet(price_change)
       THEN /\ metrics' = Append(metrics,
                   Metric("Change", <<Get(price_change, "change", "None")>>,
                          <<Get(price_change, "changePercent", "None"), "%">>))
            /\ pc' = "download"
       ELSE /\ metrics' = metrics
            /\ pc' = "fund_except"
    /\ UNCHANGED <<widgets, basic_info, price_change, messages, yf_calls, df, columns>>

Message(kind, text) == [kind |-> kind, text |-> text]

\* faulty variant: the handler ends the run instead of falling through to line 51
AfterFundExceptAborts == "done"

\* where the run continues once the fundamentals handler has reported
AfterFundExcept == "download"

\* lines 46-47
FundExcept ==
    /\ pc = "fund_except"
    /\ messages' = Append(messages, Message("error", "Could not retrieve data from Rug"))
    /\ pc' = AfterFundExcept
    /\ UNCHANGED <<widgets, fundOut, yf_calls, df, columns>>

\* lines 64-75: yf.download(symbol, period, interval=yf_interval) returns bars
\* (possibly none) or raises; flattening the column index changes no value
\* `feed` is the set of answers the provider may give
Download(feed) ==
    /\ pc = "download"
    /\ \E answer \in feed :
          /\ yf_calls' = Append(yf_calls, Call(YfInterval(interval), answer))
          /\ IF answer.raises
             THEN /\ pc' = "hist_except"
                  /\ df' = df
             ELSE /\ pc' = "resample"
                  /\ df' = answer.bars
    /\ UNCHANGED <<widgets, fundOut, messages, columns>>

\* lines 77-86
Resample ==
    /\ pc = "resample"
    /\ df' = Resampled(interval, df)
    /\ pc' = "indicators"
    /\ UNCHANGED <<widgets, fundOut, messages, yf_calls, columns>>

\* faulty variant: the emptiness test always passes (e.g. `if df is not None`)
NotEmptyUnchecked(frame) == TRUE

\* line 88: `if not df.empty`
NotEmpty(frame) == frame # <<>>

\* lines 88-157: indicators, figure, st.plotly_chart
Indicators ==
    /\ pc = "indicators"
    /\ NotEmpty(df)
    /\ RollingValid(window, 1)
    /\ SMA' = RollingMean(Column(df, "Close"), window, 1)
    /\ STD' = RollingStd(Column(df, "Close"), window, 1)
    /\ Upper' = Band(SMA', STD', std_dev)
    /\ Lower' = Band(SMA', STD', -std_dev)
    /\ delta' = RSIDelta(Column(df, "Close"))
    /\ gain' = RSIGain(delta')
    /\ loss' = RSILoss(delta')
    /\ RSI' = RSISeries(gain', loss')
    /\ colors' = [i \in 1..Len(df) |-> VolumeColor(df[i])]
    /\ charts' = charts + 1
    /\ pc' = "done"
    /\ UNCHANGED <<widgets, fundOut, messages, yf_calls, df>>

\* lines 99-103 alone: the RSI of the frame's closes
ComputeRSI ==
    /\ pc = "indicators"
    /\ NotEmpty(df)
    /\ delta' = RSIDelta(Column(df, "Close"))
    /\ gain' = RSIGain(delta')
    /\ loss' = RSILoss(delta')
    /\ RSI' = RSISeries(gain', loss')
    /\ pc' = "done"
    /\ UNCHANGED <<widgets, fundOut, messages, yf_calls, df, SMA, STD, Upper, Lower,
                   colors, charts>>

\* line 92: rolling(window=window, min_periods=1) raises ValueError
IndicatorsRaise ==
    /\ pc = "indicators"
    /\ NotEmpty(df)
    /\ ~RollingValid(window, 1)
    /\ pc' = "hist_except"
    /\ UNCHANGED <<widgets, fundOut, messages, yf_calls, df, columns>>

\* lines 159-160
NoData ==
    /\ pc = "indicators"
    /\ ~NotEmpty(df)
    /\ messages' = Append(messages, Message("warning", "No historical price data found."))
    /\ pc' = "done"
    /\ UNCHANGED <<widgets, fundOut, yf_calls, df, columns>>

\* lines 162-163
HistExcept ==
    /\ pc = "hist_except"
    /\ messages' = Append(messages, Message("error", "Error calculating technicals"))
    /\ pc' = "done"
    /\ UNCHANGED <<widgets, fundOut, yf_calls, df, columns>>

Fundamentals ==
    \/ \E raises \in BOOLEAN : RugCreate(raises)
    \/ \E raises \in BOOLEAN, result \in BasicInfoResults : GetBasicInfo(raises, result)
    \/ \E raises \in BOOLEAN, result \in PriceChangeResults : GetPriceChange(raises, result)
    \/ ShowCompanyName
    \/ ShowCurrentPrice
    \/ ShowChange
    \/ FundExcept

History ==
    \/ Resample
    \/ Indicators
    \/ IndicatorsRaise
    \/ NoData
    \/ HistExcept

Next ==
    \/ \E iv \in Intervals : SetInterval(iv)
    \/ \E w \in WindowChoices : SetWindow(w)
    \/ \E k \in StdDevChoices : SetStdDev(k)
    \/ ClickAnalyze
    \/ Fundamentals
    \/ Download(Feed)
    \/ History

Spec == Init /\ [][Next]_vars

-----------------------------------------------------------------------------
(* The history domain alone (lines 51-163), entered with any interval and *)
(* the default Bollinger settings, over a wider range of provider answers *)

InitHistory ==
    /\ pc = "download"
    /\ interval \in Intervals /\ window = DefaultWindow /\ std_dev = DefaultStdDev
    /\ basic_info = Unset /\ price_change = Unset
    /\ metrics = <<>> /\ messages = <<>>
    /\ yf_calls = <<>> /\ df = <<>>
    /\ SMA = <<>> /\ STD = <<>> /\ Upper = <<>> /\ Lower = <<>> /\ RSI = <<>>
    /\ delta = <<>> /\ gain = <<>> /\ loss = <<>>
    /\ colors = <<>> /\ charts = 0

NextHistory ==
    \/ Download(HistFeed)
    \/ Resample
    \/ Indicators
    \/ NoData
    \/ HistExcept

SpecHistory == InitHistory /\ [][NextHistory]_vars

-----------------------------------------------------------------------------
(* The indicator engine alone (lines 88-157) on close-price sequences *)

MaxCloses == 4
MaxPrice == 3
MaxWindow == 5
MaxRSICloses == 15
RSIPrices == {1, 2}

\* a frame whose closes are the given sequence, one bar per hour
FrameOf(closes) ==
    [i \in 1..Len(closes) |->
        [t |-> i - 1, Open |-> closes[i], High |-> closes[i], Low |-> closes[i],
         Close |-> closes[i], Volume |-> 0]]

CloseSeqs(maxLen, prices) == UNION {[1..n -> prices] : n \in 1..maxLen}

InitIndicators(frames, windows) ==
    /\ pc = "indicators"
    /\ df \in frames
    /\ window \in windows
    /\ interval = DefaultInterval /\ std_dev = DefaultStdDev
    /\ basic_info = Unset /\ price_change = Unset
    /\ metrics = <<>> /\ messages = <<>>
    /\ yf_calls = <<Call(DefaultInterval, Answer(FALSE, df))>>
    /\ SMA = <<>> /\ STD = <<>> /\ Upper = <<>> /\ Lower = <<>> /\ RSI = <<>>
    /\ delta = <<>> /\ gain = <<>> /\ loss = <<>>
    /\ colors = <<>> /\ charts = 0

InitBollinger ==
    InitIndicators({FrameOf(c) : c \in CloseSeqs(MaxCloses, 1..MaxPrice)}, 1..MaxWindow)

InitRSI ==
    InitIndicators({FrameOf(c) : c \in CloseSeqs(MaxRSICloses, RSIPrices)}, {DefaultWindow})

SpecBollinger == InitBollinger /\ [][Indicators]_vars

SpecRSI == InitRSI /\ [][ComputeRSI]_vars

-----------------------------------------------------------------------------
(* Properties *)

Shown(kind, text) ==
    \E i \in 1..Len(messages) : messages[i] = Message(kind, text)

FundFailed == Shown("error", "Could not retrieve data from Rug")
NoDataWarned == Shown("warning", "No historical price data found.")
TechnicalsFailed == Shown("error", "Error calculating technicals")

\* what the history domain of the run ended with
HistoryOutcome ==
    <<charts, NoDataWarned, TechnicalsFailed>>

\* what the history domain ends with as a function of the provider's answer
\* and the widgets alone
OutcomeFor(call, w) ==
    CASE call.raises -> <<0, FALSE, TRUE>>
      [] call.bars = <<>> -> <<0, TRUE, FALSE>>
      [] w >= 1 -> <<1, FALSE, FALSE>>
      [] OTHER -> <<0, FALSE, TRUE>>

\* C1: every finished run made exactly one history fetch, and what the
\* history domain ended with (chart, 'no data' warning or technicals error)
\* is decided by the provider's answer and the widgets alone, whether the
\* fundamentals step failed (at any of its statements) or succeeded.
C1_HistoryIndependentOfFundamentals ==
    pc = "done" =>
        /\ Len(yf_calls) = 1
        /\ HistoryOutcome = OutcomeFor(yf_calls[1], window)

\* a run whose fundamentals step failed while reading the result and whose
\* history domain still rendered the chart
C1_Witness ==
    /\ pc = "done"
    /\ FundFailed
    /\ Len(metrics) = 2
    /\ charts = 1

\* C2: when the provider returned no bars, the finished run shows the
\* 'No historical price data found.' warning, has computed no indicator,
\* has rendered no chart and shows no 'Error calculating technicals'.
C2_EmptyBarsWarn ==
    (pc = "done" /\ Len(yf_calls) = 1 /\ ~yf_calls[1].raises /\ yf_calls[1].bars = <<>>) =>
        /\ NoDataWarned
        /\ ~TechnicalsFailed
        /\ charts = 0
        /\ SMA = <<>> /\ STD = <<>> /\ Upper = <<>> /\ Lower = <<>> /\ RSI = <<>>
        /\ colors = <<>>

\* an empty answer for the '4h' interval with a window that rolling() rejects
C2_Witness ==
    /\ pc = "done"
    /\ interval = "4h"
    /\ window = 0
    /\ Len(yf_calls) = 1 /\ ~yf_calls[1].raises /\ yf_calls[1].bars = <<>>
    /\ NoDataWarned

\* C3 (as claimed): a run whose fundamentals step failed shows none of the
\* three metrics.
C3_FailedFundamentalsShowNoMetric ==
    FundFailed => metrics = <<>>

\* C4 (as claimed): every volume bar of a rendered chart is green if the
\* bar's close is at least its open and red otherwise.
C4_GreenIffCloseAtLeastOpen ==
    charts > 0 =>
        \A i \in 1..Len(df) :
            colors[i] = IF df[i].Close >= df[i].Open THEN "green" ELSE "red"

\* C7 (as claimed): a triggered run never proceeds with a Bollinger window
\* below 1 or a standard-deviation multiplier that is not positive.
C7_TriggeredRunHasPositiveSettings ==
    pc # "idle" => (window >= 1 /\ std_dev > 0)

Zero == Fin(0, 1)
Hundred == Fin(100, 1)

\* C5: wherever the RSI is defined it is a finite number between 0 and 100,
\* and at every position it equals 100 exactly when the 14-period average
\* loss there is 0 and the 14-period average gain there is positive (the
\* division by the zero loss yields 100; nothing is raised).
C5_RSIBoundedAndHundredIffNoLoss ==
    pc = "done" =>
        /\ Len(RSI) = Len(df)
        /\ \A p \in 1..Len(RSI) :
            /\ ~IsNaN(RSI[p]) =>
                  (RSI[p].k = "fin" /\ ~FLt(RSI[p], Zero) /\ ~FGt(RSI[p], Hundred))
            /\ FEq(RSI[p], Hundred) <=> (FEq(loss[p], Zero) /\ FGt(gain[p], Zero))

\* closes whose RSI is 100 at one position (no loss in the window) and
\* strictly between 0 and 100 at another
C5_Witness ==
    /\ pc = "done"
    /\ \E p \in 1..Len(RSI) : FEq(RSI[p], Hundred) /\ FEq(loss[p], Zero)
    /\ \E q \in 1..Len(RSI) : FGt(RSI[q], Zero) /\ FLt(RSI[q], Hundred)

RECURSIVE SumClose(_, _, _)
SumClose(frame, lo, hi) ==
    IF lo > hi THEN 0 ELSE frame[lo].Close + SumClose(frame, lo + 1, hi)

Min(a, b) == IF a <= b THEN a ELSE b

\* C6: for n >= 1 closes and a window w >= 1 (also w > n) the SMA has n
\* values, the first is the first close, and the value at every position is
\* the arithmetic mean of the min(position, w) most recent closes.
C6_SMAIsShrinkingWindowMean ==
    pc = "done" =>
        /\ Len(SMA) = Len(df)
        /\ FEq(SMA[1], Fin(df[1].Close, 1))
        /\ \A p \in 1..Len(df) :
              LET m == Min(p, window)
              IN  FEq(SMA[p], Fin(SumClose(df, p - m + 1, p), m))

\* four closes that are not all equal under a window of two: the window
\* is full from the second close on and slides twice
C6_Witness ==
    /\ pc = "done"
    /\ Len(df) = 4
    /\ window = 2
    /\ df[1].Close # df[3].Close
    /\ ~IsNaN(SMA[4])

\* C8 (as claimed): the RSI is missing at every index below 14, that is at
\* the first 14 positions.
C8_RSIMissingBelowIndex14 ==
    pc = "done" =>
        \A p \in 1..Len(RSI) : p <= RSIWindow => IsNaN(RSI[p])

\* C9 (as claimed): for every window w >= 1 the rolling std is missing at
\* the first position and defined at the second whenever there are two closes.
C9_StdSecondDefinedForEveryWindow ==
    pc = "done" =>
        /\ IsNaN(STD[1])
        /\ Len(df) >= 2 => ~IsNaN(STD[2])

\* C9 (amended): for every window w >= 1 the rolling std is missing at the
\* first position; with at least two closes it is defined at the second
\* exactly when w >= 2 (a window of 1 never holds two samples).
C9_StdSecondDefinedIffWindowAtLeastTwo ==
    pc = "done" =>
        /\ Len(STD) = Len(df)
        /\ IsNaN(STD[1])
        /\ Len(df) >= 2 => (~IsNaN(STD[2]) <=> window >= 2)

\* two different closes under a window of two: the std is defined at the
\* second position and is not zero
C9_Witness ==
    /\ pc = "done"
    /\ Len(df) >= 2
    /\ window = 2
    /\ IsNaN(STD[1])
    /\ ~IsNaN(STD[2]) /\ STD[2].n # 0

\* the bars of the provider's answer that fall into the 4-hour bin of a row
BarsIn(bars, row) ==
    {i \in 1..Len(bars) : row.t <= bars[i].t /\ bars[i].t < row.t + BucketHours}

RECURSIVE VolumeOf(_, _)
VolumeOf(bars, S) ==
    IF S = {} THEN 0
    ELSE LET i == CHOOSE x \in S : TRUE
         IN  bars[i].Volume + VolumeOf(bars, S \ {i})

IsBucketOf(row, bars) ==
    LET S == BarsIn(bars, row)
    IN  /\ S # {}
        /\ row.t % BucketHours = 0
        /\ \E i \in S : (\A j \in S : i <= j) /\ row.Open = bars[i].Open
        /\ \E i \in S : (\A j \in S : i >= j) /\ row.Close = bars[i].Close
        /\ \E i \in S : (\A j \in S : bars[j].High <= bars[i].High) /\ row.High = bars[i].High
        /\ \E i \in S : (\A j \in S : bars[j].Low >= bars[i].Low) /\ row.Low = bars[i].Low
        /\ row.Volume = VolumeOf(bars, S)

\* C10: for '4h' the provider is asked for '1h' and the frame holds one row
\* per non-empty 4-hour bin, in time order, each with the first open, the
\* highest high, the lowest low, the last close and the summed volume of the
\* bars of its bin, every bar falling into a row's bin; for every other
\* interval the provider is asked for that interval and the frame is the
\* answer's bars.
C10_FourHourResample ==
    (Len(yf_calls) = 1) =>
        /\ yf_calls[1].interval = (IF interval = "4h" THEN "1h" ELSE interval)
        /\ (pc \in {"indicators", "done"} /\ ~yf_calls[1].raises) =>
              IF interval = "4h"
              THEN /\ \A j \in 1..Len(df) : IsBucketOf(df[j], yf_calls[1].bars)
                   /\ \A j \in 1..(Len(df) - 1) : df[j].t < df[j + 1].t
                   /\ \A i \in 1..Len(yf_calls[1].bars) :
                         \E j \in 1..Len(df) : i \in BarsIn(yf_calls[1].bars, df[j])
              ELSE df = yf_calls[1].bars

\* three hourly bars, two in one bin and one two bins later: two rows, the
\* empty bin between them dropped
C10_Witness ==
    /\ pc = "done"
    /\ interval = "4h"
    /\ Len(yf_calls) = 1 /\ Len(yf_calls[1].bars) = 3
    /\ Len(df) = 2
    /\ df[2].t - df[1].t = 2 * BucketHours
    /\ df[1].High # yf_calls[1].bars[1].High

====
